---- MODULE Spec2Model ----
(***************************************************************************)
(* Model of src/src/main.rs: the button (PA0) / LED (PE15) firmware for    *)
(* the STM32F3 Discovery board.                                            *)
(*                                                                         *)
(* A 32-bit register value (u32) is the set of the positions of its set    *)
(* bits, a subset of 0..31: r | m is a union, r & m an intersection, !m    *)
(* the complement in 0..31, and a left shift drops bits moved past 31.     *)
(*                                                                         *)
(* Two execution contexts: main (setup, then the heartbeat loop) and the   *)
(* EXTI0 handler, which preempts main and runs to completion.  The button  *)
(* is the environment: it may produce an edge between any two steps.       *)
(***************************************************************************)
EXTENDS Integers, Sequences, FiniteSets, TLC

\* ------------------------------------------------------------- bounds ----
\* Button edges after setup has completed (edges during setup are not capped).
MaxEdges == 3
\* Largest value of the heartbeat counter: the i32 of the code, scaled down so
\* that the wrap at the top of the range is reached.
CounterMax == 2
CounterMin == -CounterMax - 1

\* ---------------------------------------------------------- bit vectors ----
WordBits == 0..31

\* The u32 of a small literal (below 2^31).
Bits(n) == {b \in 0..30 : (n \div (2 ^ b)) % 2 = 1}

BitOr(a, b) == a \cup b
BitAnd(a, b) == a \cap b
BitNot(a) == WordBits \ a
\* x << s on u32, 0 <= s < 32: bits shifted out of the word are lost.
Shl(x, s) == {b + s : b \in x} \cap WordBits

\* ------------------------------------------------------------ registers ----
OUTPUT_PIN == 15

RegNames ==
    {"RCC_AHBENR", "RCC_AHB2ENR", "GPIOA_IDR", "GPIOE_MODER", "GPIOE_ODR",
     "SYSCFG_EXTICR1", "EXTI_IMR1", "EXTI_RTSR1", "EXTI_FTSR1", "EXTI_PR1",
     "NVIC_ISER0"}

\* The address of each register the program accesses, as <<upper half, lower
\* half>> of the 32-bit address: base + offset of the constants of main.rs
\* (ITM_STIM0 is stimulus port 0 of the ITM, behind p.ITM.stim[0]).
AddrOf(reg) ==
    CASE reg = "RCC_AHBENR" -> <<16386, 4096 + 20>>
      [] reg = "RCC_AHB2ENR" -> <<16386, 4096 + 24>>
      [] reg = "GPIOA_IDR" -> <<18432, 0 + 16>>
      [] reg = "GPIOE_MODER" -> <<18432, 4096 + 0>>
      [] reg = "GPIOE_BSRR" -> <<18432, 4096 + 24>>
      [] reg = "SYSCFG_EXTICR1" -> <<16385, 0 + 8>>
      [] reg = "EXTI_IMR1" -> <<16385, 1024 + 0>>
      [] reg = "EXTI_RTSR1" -> <<16385, 1024 + 8>>
      [] reg = "EXTI_FTSR1" -> <<16385, 1024 + 12>>
      [] reg = "EXTI_PR1" -> <<16385, 1024 + 20>>
      [] reg = "NVIC_ISER0" -> <<57344, 57600 + 0>>
      [] reg = "ITM_STIM0" -> <<57344, 0>>
Addrs(regs) == {AddrOf(r) : r \in regs}

VARIABLES
    mem,            \* register contents, by register
    main_pc,        \* main: the setup operation in progress, "loop" or "halted"
    main_rmw,       \* main: "read" or "write" half of the modify in progress
    main_r,         \* main: the value the modify in progress has read
    i,              \* main: the heartbeat counter
    stim,           \* trace channel: <<>> or <<the last value emitted>>
    h_pc,           \* EXTI0: "idle" or the handler's position
    h_r,            \* EXTI0: the value read from EXTI_PR1
    switch_pressed, \* EXTI0: the result of read_input()
    bsrr,           \* the last value written to GPIOE_BSRR (<<>> if none)
    \* history, for stating the properties
    touched,        \* registers accessed so far, by context
    unclocked,      \* registers accessed while their bus clock was off
    setup_log,      \* registers written by main's setup, in order
    edges,          \* button edges since setup completed
    coalesced,      \* of those, edges that found line 0 already pending
    carried,        \* 1 if line 0 was pending when setup completed
    invocations,    \* handler invocations so far
    edge_level,     \* pin level at the edge that raised the pending bit
    edge_moved,     \* a further edge arrived since that edge
    h_trig_level,   \* pin level at the edge that triggered this invocation
    h_moved,        \* an edge arrived between that edge and this invocation's read
    h_level,        \* pin level when this invocation read GPIOA_IDR
    h_idr,          \* the value this invocation read from GPIOA_IDR
    h_odr0,         \* GPIOE_ODR when this invocation started
    h_pr0,          \* EXTI_PR1 just before this invocation's acknowledge
    late_edge,      \* an edge arrived after this invocation's acknowledge
    h_log,          \* the register accesses of this invocation, in order
    st_stage,       \* stage harness: the stage under test
    st_pin,         \* stage harness: the pin index given to the stage
    st_runs,        \* stage harness: times the stage has run
    st_prior,       \* stage harness: registers before the first run
    st_once         \* stage harness: registers after the first run

vars ==
    <<mem, main_pc, main_rmw, main_r, i, stim, h_pc, h_r, switch_pressed, bsrr,
      touched, unclocked, setup_log, edges, coalesced, carried, invocations,
      edge_level, edge_moved, h_trig_level, h_moved, h_level, h_idr, h_odr0,
      h_pr0, late_edge, h_log, st_stage, st_pin, st_runs, st_prior, st_once>>

histVars ==
    <<edge_level, edge_moved, h_trig_level, h_moved, h_level, h_idr, h_odr0,
      h_pr0, late_edge>>
stageVars == <<st_stage, st_pin, st_runs, st_prior, st_once>>

\* ------------------------------------------------- the closures of main ----
\* rcc_ahbenr.modify(|r| r | (1 << 21))
AhbenrEnableGpioe(r) == BitOr(r, Shl(Bits(1), 21))

\* Mutant: the field position is the pin index, not twice the pin index.
ModerSetOutput_PinShift(pin, r) ==
    BitOr(BitAnd(r, BitNot(Shl(Bits(3), pin))), Shl(Bits(1), pin))

\* Mutant: the field is not cleared before the mode is ORed in.
ModerSetOutput_NoClear(pin, r) == BitOr(r, Shl(Bits(1), pin * 2))

\* gpioe_moder.modify(|r| (r & !mask) | set_mode)
ModerSetOutput(pin, r) ==
    LET pin_shift == pin * 2
        mask == Shl(Bits(3), pin_shift)
        mode == Bits(1)
        set_mode == Shl(mode, pin_shift)
    IN  BitOr(BitAnd(r, BitNot(mask)), set_mode)

\* ahbenr.modify(|r| r | (1 << 17))
AhbenrEnableGpioa(r) == BitOr(r, Shl(Bits(1), 17))

\* ahb2enr.modify(|r| r | (1 << 0))
Ahb2enrEnableSyscfg(r) == BitOr(r, Shl(Bits(1), 0))

\* Mutant: the whole register is cleared, not only the field of line 0.
Exticr1SelectPortA_ClearAll(r) == BitAnd(r, BitNot(WordBits))

\* exticr1.modify(|r| r & !0b111)
Exticr1SelectPortA(r) == BitAnd(r, BitNot(Bits(7)))

\* Mutant: the rising trigger is left as it was.
Rtsr1Rising_Unset(r) == r
\* Mutant: the falling trigger is left as it was.
Ftsr1Falling_Unset(r) == r

\* exti_imr1 / exti_rtsr1 / exti_ftsr1 .modify(|r| r | (1 << 0))
Imr1Unmask(r) == BitOr(r, Shl(Bits(1), 0))
Rtsr1Rising(r) == BitOr(r, Shl(Bits(1), 0))
Ftsr1Falling(r) == BitOr(r, Shl(Bits(1), 0))

\* nvic_iser0.modify(|r| r | (1 << 6))
Iser0Enable(r) == BitOr(r, Shl(Bits(1), 6))

\* Mutant: the pin mode is written before the port's clock is enabled.
SetupGpioeOps_ModeFirst == <<"moder", "gpioe_clk">>
\* Mutant: the NVIC enable is written before the falling trigger is selected.
SetupInterruptOps_EnableEarly ==
    <<"syscfg_clk", "exticr1", "imr1", "rtsr1", "iser0", "ftsr1">>

\* The modify operations of each setup function, in program order.
SetupGpioeOps == <<"gpioe_clk", "moder">>
SetupGpioaOps == <<"gpioa_clk">>
SetupInterruptOps == <<"syscfg_clk", "exticr1", "imr1", "rtsr1", "ftsr1", "iser0">>

\* Mutant: the input pin is set up before the output pin.
MainOps_GpioaFirst == SetupGpioaOps \o SetupGpioeOps \o SetupInterruptOps

\* main(): the three setup calls, in order.
MainOps == SetupGpioeOps \o SetupGpioaOps \o SetupInterruptOps

Range(s) == {s[k] : k \in 1..Len(s)}
SetupPcs == Range(MainOps)

\* The register each modify operation targets.
OpReg(op) ==
    CASE op = "gpioe_clk" -> "RCC_AHBENR"
      [] op = "moder" -> "GPIOE_MODER"
      [] op = "gpioa_clk" -> "RCC_AHBENR"
      [] op = "syscfg_clk" -> "RCC_AHB2ENR"
      [] op = "exticr1" -> "SYSCFG_EXTICR1"
      [] op = "imr1" -> "EXTI_IMR1"
      [] op = "rtsr1" -> "EXTI_RTSR1"
      [] op = "ftsr1" -> "EXTI_FTSR1"
      [] op = "iser0" -> "NVIC_ISER0"

\* The closure each modify operation applies to the value it read.
OpFn(op, pin, r) ==
    CASE op = "gpioe_clk" -> AhbenrEnableGpioe(r)
      [] op = "moder" -> ModerSetOutput(pin, r)
      [] op = "gpioa_clk" -> AhbenrEnableGpioa(r)
      [] op = "syscfg_clk" -> Ahb2enrEnableSyscfg(r)
      [] op = "exticr1" -> Exticr1SelectPortA(r)
      [] op = "imr1" -> Imr1Unmask(r)
      [] op = "rtsr1" -> Rtsr1Rising(r)
      [] op = "ftsr1" -> Ftsr1Falling(r)
      [] op = "iser0" -> Iser0Enable(r)

OpIndex(op) == CHOOSE k \in 1..Len(MainOps) : MainOps[k] = op
NextPc(op) ==
    IF OpIndex(op) = Len(MainOps) THEN "loop" ELSE MainOps[OpIndex(op) + 1]

SetupDone == main_pc \in {"loop", "halted"}

\* -------------------------------------------- the closures of the handler ----
\* Mutant: the handler reads the input before it acknowledges the interrupt.
HandlerOps_ReadFirst == <<"read_input", "pr_read", "pr_write", "set_led">>
\* Mutant: the handler acknowledges the interrupt last, not first.
HandlerOps_AckLast == <<"read_input", "set_led", "pr_read", "pr_write">>

\* EXTI0: the handler's steps, in program order (a modify is a read, then a
\* write); there is no loop and no early return.
HandlerOps == <<"pr_read", "pr_write", "read_input", "set_led">>

HandlerIndex(pc) == CHOOSE k \in 1..Len(HandlerOps) : HandlerOps[k] = pc
HandlerNext(pc) ==
    IF HandlerIndex(pc) = Len(HandlerOps) THEN "ret"
    ELSE HandlerOps[HandlerIndex(pc) + 1]

\* Mutant: the bit is masked out of the value written back, not ORed in.
Pr1Acknowledge_AndNot(r) == BitAnd(r, BitNot(Bits(1)))

\* exti_pr1.modify(|r| (r | 0x1))
Pr1Acknowledge(r) == BitOr(r, Bits(1))

\* Mutant: the handler uses EXTI_IMR1_OFFSET.
HandlerPendingReg_Imr == "EXTI_IMR1"

\* The register the handler acknowledges in: EXTI_ADDR + EXTI_PR1_OFFSET.
HandlerPendingReg == "EXTI_PR1"

\* Mutant: mask = 0x2.
ReadInputOf_Mask2(value) == BitAnd(value, Bits(2)) # {}

\* read_input(): value & mask > 0, mask = 0x1
ReadInputOf(value) == BitAnd(value, Bits(1)) # {}

\* Mutant: the pin below is set as well (0b11 << (pin - 1)).
SetLedOnValue_TwoPins(pin) == Shl(Bits(3), pin - 1)

\* set_led_on(pin): bsrr.write(1 << pin)
SetLedOnValue(pin) == Shl(Bits(1), pin)
\* Mutant: the reset half is not addressed (1 << pin).
SetLedOffValue_LowHalf(pin) == Shl(Bits(1), pin)
\* set_led_off(pin): bsrr.write(1 << (16 + pin))
SetLedOffValue(pin) == Shl(Bits(1), 16 + pin)

\* EXTI0: if switch_pressed { set_led_on(OUTPUT_PIN) } else { set_led_off(OUTPUT_PIN) }
LedWriteValue(pressed) ==
    IF pressed THEN SetLedOnValue(OUTPUT_PIN) ELSE SetLedOffValue(OUTPUT_PIN)

\* i += 1 on the counter: below the maximum the sum; at the maximum the build
\* decides: two's-complement wrap (overflow checks off) or a panic, which
\* panic_halt turns into a halt (overflow checks on).
AddOne(v) ==
    IF v < CounterMax
    THEN {[ok |-> TRUE, v |-> v + 1]}
    ELSE {[ok |-> TRUE, v |-> CounterMin], [ok |-> FALSE, v |-> v]}

\* ------------------------------------------------------------- hardware ----
\* What the registers do when accessed, as the comments of main.rs state it:
\* the clock-enable bits gate their peripherals, BSRR sets and resets output
\* pins, EXTI_PR1 is cleared by writing 1, an edge on PA0 is latched in
\* EXTI_PR1 when its trigger is selected, and the request reaches the handler
\* when it is unmasked in EXTI_IMR1 and enabled in NVIC_ISER0.
\* The bus clock gating a register: <<clock-enable register, bit>>.
ClockOf(reg) ==
    CASE reg \in {"GPIOE_MODER", "GPIOE_ODR", "GPIOE_BSRR"} -> <<"RCC_AHBENR", 21>>
      [] reg = "GPIOA_IDR" -> <<"RCC_AHBENR", 17>>
      [] reg = "SYSCFG_EXTICR1" -> <<"RCC_AHB2ENR", 0>>
      [] OTHER -> <<"none", 0>>

Clocked(m, reg) ==
    LET c == ClockOf(reg) IN c[1] = "none" \/ c[2] \in m[c[1]]

\* Reading a register: its content; of an unclocked peripheral, undefined
\* (its content or nothing).
HwRead(m, reg) == IF Clocked(m, reg) THEN {m[reg]} ELSE {m[reg], {}}

\* GPIOE_BSRR: bits 0..15 set the pins, bits 16..31 reset them, set wins.
BsrrEffect(odr, v) ==
    LET sets == v \cap (0..15)
        resets == {b - 16 : b \in v \cap (16..31)}
    IN  (odr \ resets) \cup sets

\* The register file after `v` is written to `reg`.
Stored(m, reg, v) ==
    CASE reg = "EXTI_PR1" -> [m EXCEPT !["EXTI_PR1"] = @ \ v]
      [] reg = "NVIC_ISER0" -> [m EXCEPT !["NVIC_ISER0"] = @ \cup v]
      [] reg = "GPIOE_BSRR" -> [m EXCEPT !["GPIOE_ODR"] = BsrrEffect(@, v)]
      [] OTHER -> [m EXCEPT ![reg] = v]

\* Writing a register; a write to an unclocked peripheral may be lost.
HwWrite(m, reg, v) ==
    IF Clocked(m, reg) THEN {Stored(m, reg, v)} ELSE {Stored(m, reg, v), m}

\* EXTI line 0 is fed by port A when the port-select field of EXTICR1 is 000.
Line0IsPortA(m) == BitAnd(m["SYSCFG_EXTICR1"], Bits(7)) = {}

\* An edge to level `lvl` on PA0 is latched in EXTI_PR1 when the trigger for
\* its direction is selected.
EdgeDetected(m, lvl) ==
    /\ Line0IsPortA(m)
    /\ \/ lvl /\ 0 \in m["EXTI_RTSR1"]
       \/ ~lvl /\ 0 \in m["EXTI_FTSR1"]

\* The EXTI0 request reaches the core: pending, unmasked, enabled in the NVIC.
Irq0(m) ==
    /\ 0 \in m["EXTI_PR1"]
    /\ 0 \in m["EXTI_IMR1"]
    /\ 6 \in m["NVIC_ISER0"]

PinLevel(m) == 0 \in m["GPIOA_IDR"]
LedLevel(m) == OUTPUT_PIN \in m["GPIOE_ODR"]

\* Registers after reset: the fields this program configures are all zero
\* (RCC_AHBENR resets to 0x14, EXTI_IMR1 to 0x1F800000, the others to 0).
ResetMem ==
    [r \in RegNames |->
        CASE r = "RCC_AHBENR" -> Bits(20)
          [] r = "EXTI_IMR1" -> Shl(Bits(63), 23)
          [] OTHER -> {}]

\* ----------------------------------------------------------------- Init ----
StageIdle ==
    /\ st_stage = "none"
    /\ st_pin = OUTPUT_PIN
    /\ st_runs = 0
    /\ st_prior = ResetMem
    /\ st_once = ResetMem

ProgramInit ==
    /\ main_pc = MainOps[1]
    /\ main_rmw = "read"
    /\ main_r = {}
    /\ i = 0
    /\ stim = <<>>
    /\ h_pc = "idle"
    /\ h_r = {}
    /\ switch_pressed = FALSE
    /\ bsrr = <<>>
    /\ touched = [main |-> {}, handler |-> {}]
    /\ unclocked = {}
    /\ setup_log = <<>>
    /\ edges = 0
    /\ coalesced = 0
    /\ carried = 0
    /\ invocations = 0
    /\ edge_level = FALSE
    /\ edge_moved = FALSE
    /\ h_trig_level = FALSE
    /\ h_moved = FALSE
    /\ h_level = FALSE
    /\ h_idr = {}
    /\ h_odr0 = {}
    /\ h_pr0 = {}
    /\ late_edge = FALSE
    /\ h_log = <<>>

\* Boot: registers in their reset state; the pins of port A at any level, the
\* other outputs of port E and the pending bits of other lines at any value.
Init ==
    /\ \E idr \in SUBSET {0, 1}, odr \in SUBSET {14}, pr \in SUBSET {1} :
          mem = [ResetMem EXCEPT !["GPIOA_IDR"] = idr,
                                 !["GPIOE_ODR"] = odr,
                                 !["EXTI_PR1"] = pr]
    /\ ProgramInit
    /\ StageIdle

\* ----------------------------------------------------------------- main ----
\* The read half of a modify in main.
MainRead ==
    /\ h_pc = "idle"
    /\ main_pc \in SetupPcs
    /\ main_rmw = "read"
    /\ LET reg == OpReg(main_pc) IN
          /\ \E v \in HwRead(mem, reg) : main_r' = v
          /\ touched' = [touched EXCEPT !.main = @ \cup {reg}]
          /\ unclocked' = IF Clocked(mem, reg) THEN unclocked ELSE unclocked \cup {reg}
    /\ main_rmw' = "write"
    /\ UNCHANGED <<h_log, mem, main_pc, i, stim, h_pc, h_r, switch_pressed, bsrr, setup_log,
                   edges, coalesced, carried, invocations, histVars, stageVars>>

\* The write half of a modify in main.
MainWrite ==
    /\ h_pc = "idle"
    /\ main_pc \in SetupPcs
    /\ main_rmw = "write"
    /\ LET reg == OpReg(main_pc) IN
          /\ \E m \in HwWrite(mem, reg, OpFn(main_pc, OUTPUT_PIN, main_r)) : mem' = m
          /\ touched' = [touched EXCEPT !.main = @ \cup {reg}]
          /\ unclocked' = IF Clocked(mem, reg) THEN unclocked ELSE unclocked \cup {reg}
          /\ setup_log' = Append(setup_log, reg)
    /\ main_pc' = NextPc(main_pc)
    /\ main_rmw' = "read"
    /\ carried' = IF NextPc(main_pc) = "loop" /\ 0 \in mem'["EXTI_PR1"] THEN 1 ELSE carried
    /\ UNCHANGED <<h_log, main_r, i, stim, h_pc, h_r, switch_pressed, bsrr,
                   edges, coalesced, invocations, histVars, stageVars>>

\* setup_gpioe_pin_as_output(OUTPUT_PIN)
SetupGpioePinAsOutput ==
    /\ main_pc \in Range(SetupGpioeOps)
    /\ (MainRead \/ MainWrite)

\* setup_gpioa_pin_as_input()
SetupGpioaPinAsInput ==
    /\ main_pc \in Range(SetupGpioaOps)
    /\ (MainRead \/ MainWrite)

\* setup_input_interrupt()
SetupInputInterrupt ==
    /\ main_pc \in Range(SetupInterruptOps)
    /\ (MainRead \/ MainWrite)

\* One iteration of main's loop: iprintln!(stim, ..., i); i += 1.
MainLoop ==
    /\ h_pc = "idle"
    /\ main_pc = "loop"
    /\ stim' = <<i>>
    /\ touched' = [touched EXCEPT !.main = @ \cup {"ITM_STIM0"}]
    /\ \E o \in AddOne(i) :
          /\ i' = o.v
          /\ main_pc' = IF o.ok THEN "loop" ELSE "halted"
    /\ UNCHANGED <<h_log, mem, main_rmw, main_r, h_pc, h_r, switch_pressed, bsrr, unclocked,
                   setup_log, edges, coalesced, carried, invocations, histVars,
                   stageVars>>

\* ---------------------------------------------------------------- EXTI0 ----
HandlerActive == h_pc # "idle"
Logged(reg, rw) == \E k \in 1..Len(h_log) : h_log[k] = <<reg, rw>>

\* The core takes the EXTI0 exception.
EXTI0_Entry ==
    /\ h_pc = "idle"
    /\ Irq0(mem)
    /\ h_pc' = HandlerOps[1]
    /\ h_log' = <<>>
    /\ invocations' = invocations + 1
    /\ h_trig_level' = edge_level
    /\ h_moved' = edge_moved
    /\ h_odr0' = mem["GPIOE_ODR"]
    /\ late_edge' = FALSE
    /\ UNCHANGED <<mem, main_pc, main_rmw, main_r, i, stim, h_r, switch_pressed, bsrr,
                   touched, unclocked, setup_log, edges, coalesced, carried,
                   edge_level, edge_moved, h_level, h_idr, h_pr0, stageVars>>

\* exti_pr1.modify: the read.
EXTI0_PendingRead ==
    /\ h_pc = "pr_read"
    /\ \E v \in HwRead(mem, HandlerPendingReg) : h_r' = v
    /\ touched' = [touched EXCEPT !.handler = @ \cup {HandlerPendingReg}]
    /\ h_pc' = HandlerNext("pr_read")
    /\ h_log' = Append(h_log, <<HandlerPendingReg, "r">>)
    /\ UNCHANGED <<mem, main_pc, main_rmw, main_r, i, stim, switch_pressed, bsrr,
                   unclocked, setup_log, edges, coalesced, carried, invocations,
                   histVars, stageVars>>

\* exti_pr1.modify: the write of the closure's result.
EXTI0_PendingWrite ==
    /\ h_pc = "pr_write"
    /\ \E m \in HwWrite(mem, HandlerPendingReg, Pr1Acknowledge(h_r)) : mem' = m
    /\ h_pr0' = mem["EXTI_PR1"]
    /\ touched' = [touched EXCEPT !.handler = @ \cup {HandlerPendingReg}]
    /\ h_pc' = HandlerNext("pr_write")
    /\ h_log' = Append(h_log, <<HandlerPendingReg, "w">>)
    /\ UNCHANGED <<main_pc, main_rmw, main_r, i, stim, h_r, switch_pressed, bsrr,
                   unclocked, setup_log, edges, coalesced, carried, invocations,
                   edge_level, edge_moved, h_trig_level, h_moved, h_level, h_idr,
                   h_odr0, late_edge, stageVars>>

\* let switch_pressed = read_input();
EXTI0_ReadInput ==
    /\ h_pc = "read_input"
    /\ \E v \in HwRead(mem, "GPIOA_IDR") :
          /\ h_idr' = v
          /\ switch_pressed' = ReadInputOf(v)
    /\ h_level' = PinLevel(mem)
    /\ touched' = [touched EXCEPT !.handler = @ \cup {"GPIOA_IDR"}]
    /\ unclocked' = IF Clocked(mem, "GPIOA_IDR") THEN unclocked
                    ELSE unclocked \cup {"GPIOA_IDR"}
    /\ h_pc' = HandlerNext("read_input")
    /\ h_log' = Append(h_log, <<"GPIOA_IDR", "r">>)
    /\ UNCHANGED <<mem, main_pc, main_rmw, main_r, i, stim, h_r, bsrr, setup_log,
                   edges, coalesced, carried, invocations, edge_level, edge_moved,
                   h_trig_level, h_moved, h_odr0, h_pr0, late_edge, stageVars>>

\* if switch_pressed { set_led_on(OUTPUT_PIN) } else { set_led_off(OUTPUT_PIN) }
EXTI0_SetLed ==
    /\ h_pc = "set_led"
    /\ \E m \in HwWrite(mem, "GPIOE_BSRR", LedWriteValue(switch_pressed)) : mem' = m
    /\ bsrr' = <<LedWriteValue(switch_pressed)>>
    /\ touched' = [touched EXCEPT !.handler = @ \cup {"GPIOE_BSRR"}]
    /\ unclocked' = IF Clocked(mem, "GPIOE_BSRR") THEN unclocked
                    ELSE unclocked \cup {"GPIOE_BSRR"}
    /\ h_pc' = HandlerNext("set_led")
    /\ h_log' = Append(h_log, <<"GPIOE_BSRR", "w">>)
    /\ UNCHANGED <<main_pc, main_rmw, main_r, i, stim, h_r, switch_pressed, setup_log,
                   edges, coalesced, carried, invocations, histVars, stageVars>>

\* The handler returns.
EXTI0_Return ==
    /\ h_pc = "ret"
    /\ h_pc' = "idle"
    /\ UNCHANGED <<h_log, mem, main_pc, main_rmw, main_r, i, stim, h_r, switch_pressed, bsrr,
                   touched, unclocked, setup_log, edges, coalesced, carried,
                   invocations, histVars, stageVars>>

\* --------------------------------------------------------------- button ----
\* The button changes the level of PA0.
ButtonEdge ==
    /\ SetupDone => edges < MaxEdges
    /\ LET lvl == ~PinLevel(mem)
           was == 0 \in mem["EXTI_PR1"]
           det == EdgeDetected(mem, lvl)
       IN
          /\ mem' = [mem EXCEPT
                        !["GPIOA_IDR"] = IF lvl THEN @ \cup {0} ELSE @ \ {0},
                        !["EXTI_PR1"] = IF det THEN @ \cup {0} ELSE @]
          /\ edges' = IF SetupDone THEN edges + 1 ELSE edges
          /\ coalesced' = IF SetupDone /\ was THEN coalesced + 1 ELSE coalesced
          /\ edge_level' = IF ~was /\ det THEN lvl ELSE edge_level
          /\ edge_moved' = IF was THEN TRUE ELSE IF det THEN FALSE ELSE edge_moved
          /\ h_moved' = IF HandlerActive /\ ~Logged("GPIOA_IDR", "r")
                        THEN TRUE ELSE h_moved
          /\ late_edge' = IF HandlerActive /\ Logged(HandlerPendingReg, "w")
                          THEN TRUE ELSE late_edge
    /\ UNCHANGED <<h_log, main_pc, main_rmw, main_r, i, stim, h_pc, h_r, switch_pressed, bsrr,
                   touched, unclocked, setup_log, carried, invocations,
                   h_trig_level, h_level, h_idr, h_odr0, h_pr0, stageVars>>

\* ----------------------------------------------------------------- Spec ----
Next ==
    \/ SetupGpioePinAsOutput
    \/ SetupGpioaPinAsInput
    \/ SetupInputInterrupt
    \/ MainLoop
    \/ EXTI0_Entry
    \/ EXTI0_PendingRead
    \/ EXTI0_PendingWrite
    \/ EXTI0_ReadInput
    \/ EXTI0_SetLed
    \/ EXTI0_Return
    \/ ButtonEdge

Spec == Init /\ [][Next]_vars

\* The core takes a pending, enabled exception and runs the handler to its
\* return: no step of the handler waits for anything.
HandlerFairness ==
    /\ WF_vars(EXTI0_Entry)
    /\ WF_vars(EXTI0_PendingRead)
    /\ WF_vars(EXTI0_PendingWrite)
    /\ WF_vars(EXTI0_ReadInput)
    /\ WF_vars(EXTI0_SetLed)
    /\ WF_vars(EXTI0_Return)

SpecFair == Spec /\ HandlerFairness

\* -------------------------------------------------------- stage harness ----
\* Times a stage is run in the harness.
MaxRuns == 2

StageNames == {"gpioe", "gpioa", "interrupt", "main"}

StageOps(s) ==
    CASE s = "gpioe" -> SetupGpioeOps
      [] s = "gpioa" -> SetupGpioaOps
      [] s = "interrupt" -> SetupInterruptOps
      [] s = "main" -> MainOps

\* A whole setup function, start to end, on the register file `m`.
RECURSIVE RunOps(_, _, _)
RunOps(m, ops, pin) ==
    IF ops = <<>> THEN m
    ELSE LET op == Head(ops)
             reg == OpReg(op)
         IN  RunOps(Stored(m, reg, OpFn(op, pin, m[reg])), Tail(ops), pin)

\* Prior register contents a stage is tried on: every combination of the bits
\* of its own fields and of one or two bits beside them.
StagePriors(s, pin) ==
    CASE s = "gpioe" ->
           {[ResetMem EXCEPT !["RCC_AHBENR"] = a, !["GPIOE_MODER"] = m] :
               a \in SUBSET {17, 21},
               m \in SUBSET {2 * pin, 2 * pin + 1, (2 * pin + 2) % 32,
                             (2 * pin + 31) % 32}}
      [] s = "gpioa" ->
           {[ResetMem EXCEPT !["RCC_AHBENR"] = a] : a \in SUBSET {2, 17, 21}}
      [] s = "interrupt" ->
           {[ResetMem EXCEPT !["RCC_AHB2ENR"] = a, !["SYSCFG_EXTICR1"] = x,
                             !["EXTI_IMR1"] = im, !["EXTI_RTSR1"] = rt,
                             !["EXTI_FTSR1"] = ft, !["NVIC_ISER0"] = en] :
               a \in SUBSET {0, 1}, x \in SUBSET {0, 2, 3}, im \in SUBSET {0, 1},
               rt \in SUBSET {0}, ft \in SUBSET {0, 5}, en \in SUBSET {6, 7}}
      [] s = "main" ->
           {[ResetMem EXCEPT !["RCC_AHBENR"] = a, !["RCC_AHB2ENR"] = b,
                             !["GPIOE_MODER"] = m, !["SYSCFG_EXTICR1"] = x,
                             !["EXTI_IMR1"] = im, !["EXTI_RTSR1"] = rt,
                             !["EXTI_FTSR1"] = ft, !["NVIC_ISER0"] = en] :
               a \in {{2, 4}, {2, 18, 21}}, b \in {{}, {1, 14}},
               m \in {{}, {28, 29, 31}}, x \in {{}, {1, 3, 4}},
               im \in {Shl(Bits(63), 23), {0, 1}}, rt \in {{}, {1}},
               ft \in {{}, {0, 5}}, en \in {{}, {6, 7}}}

StageInit ==
    /\ st_stage \in StageNames
    /\ st_pin \in (IF st_stage = "gpioe" THEN 0..15 ELSE {OUTPUT_PIN})
    /\ mem \in StagePriors(st_stage, st_pin)
    /\ st_runs = 0
    /\ st_prior = mem
    /\ st_once = mem
    /\ ProgramInit

RunStage(s) ==
    /\ st_stage = s
    /\ st_runs < MaxRuns
    /\ mem' = RunOps(mem, StageOps(s), st_pin)
    /\ st_runs' = st_runs + 1
    /\ st_once' = IF st_runs = 0 THEN mem' ELSE st_once
    /\ UNCHANGED <<h_log, main_pc, main_rmw, main_r, i, stim, h_pc, h_r, switch_pressed, bsrr,
                   touched, unclocked, setup_log, edges, coalesced, carried,
                   invocations, histVars, st_stage, st_pin, st_prior>>

RunSetupGpioePinAsOutput == RunStage("gpioe")
RunSetupGpioaPinAsInput == RunStage("gpioa")
RunSetupInputInterrupt == RunStage("interrupt")
RunMainSetup == RunStage("main")

StageNext ==
    \/ RunSetupGpioePinAsOutput
    \/ RunSetupGpioaPinAsInput
    \/ RunSetupInputInterrupt
    \/ RunMainSetup

SpecStage == StageInit /\ [][StageNext]_vars

\* =============================================================== claims ====
AtReturn == h_pc = "ret"
Pending0 == 0 \in mem["EXTI_PR1"]

\* ------------------------------------------------------------------ C1 ----
\* C1 (as stated): whenever an invocation of the handler returns, the driven
\* level of PE15 equals the level PA0 had at the edge that triggered the
\* invocation.
C1_OutputIsLevelAtTriggerEdge ==
    AtReturn => (LedLevel(mem) = h_trig_level)

\* C1 (amended): whenever an invocation of the handler returns, the driven
\* level of PE15 equals the level PA0 had when the invocation read GPIOA_IDR;
\* that is the level at the triggering edge when no further edge arrived
\* between that edge and the read.
C1_OutputIsLevelAtRead ==
    AtReturn =>
        /\ LedLevel(mem) = h_level
        /\ ~h_moved => LedLevel(mem) = h_trig_level

\* An invocation is about to return after the pin moved again before the read.
C1_Witness ==
    AtReturn /\ h_moved /\ h_level # h_trig_level /\ LedLevel(mem) = h_level

\* ------------------------------------------------------------------ C2 ----
\* C2 (as stated): the handler never returns with the pending bit of line 0
\* set, whatever edges interleave with its steps.
C2_PendingClearAtReturn ==
    AtReturn => ~Pending0

\* C2 (amended): the handler's acknowledge clears the pending bit of line 0,
\* and from the acknowledge to the return the bit is set exactly when a button
\* edge arrived after the acknowledge.
C2_PendingClearedByAcknowledge ==
    h_pc \in {"read_input", "set_led", "ret"} => (Pending0 <=> late_edge)

\* An invocation is about to return, no edge since its acknowledge, bit clear.
C2_Witness ==
    AtReturn /\ ~late_edge /\ ~Pending0 /\ 0 \in h_pr0

\* ------------------------------------------------------------------ C3 ----
ConfigFinal(m) ==
    /\ {17, 21} \subseteq m["RCC_AHBENR"]
    /\ 0 \in m["RCC_AHB2ENR"]
    /\ m["GPIOE_MODER"] \cap {2 * OUTPUT_PIN, 2 * OUTPUT_PIN + 1} = {2 * OUTPUT_PIN}
    /\ m["SYSCFG_EXTICR1"] \cap {0, 1, 2} = {}
    /\ 0 \in m["EXTI_IMR1"]
    /\ 0 \in m["EXTI_RTSR1"]
    /\ 0 \in m["EXTI_FTSR1"]

\* C3: the write of NVIC_ISER0 bit 6 is the last setup write, and the handler
\* is never invoked while a clock enable, the MODER field of the output pin,
\* the EXTICR1 port select, IMR1, RTSR1 or FTSR1 bit 0 is short of its final
\* value, whatever edges occur during setup.
C3_HandlerSeesFinalConfig ==
    /\ (h_pc # "idle" \/ invocations > 0) => ConfigFinal(mem)
    /\ \A k \in 1..Len(setup_log) :
          setup_log[k] = "NVIC_ISER0" => k = Len(setup_log) /\ SetupDone
    /\ 6 \in mem["NVIC_ISER0"] => SetupDone

\* The handler is invoked for an edge latched while setup was still running.
C3_Witness ==
    h_pc = "pr_read" /\ carried = 1 /\ edges = 0

\* ------------------------------------------------------------------ C4 ----
StageFieldsFinal(s, pin, m) ==
    CASE s = "gpioe" ->
           /\ 21 \in m["RCC_AHBENR"]
           /\ m["GPIOE_MODER"] \cap {2 * pin, 2 * pin + 1} = {2 * pin}
      [] s = "gpioa" -> 17 \in m["RCC_AHBENR"]
      [] s = "interrupt" ->
           /\ 0 \in m["RCC_AHB2ENR"]
           /\ m["SYSCFG_EXTICR1"] \cap {0, 1, 2} = {}
           /\ 0 \in m["EXTI_IMR1"]
           /\ 0 \in m["EXTI_RTSR1"]
           /\ 0 \in m["EXTI_FTSR1"]
           /\ 6 \in m["NVIC_ISER0"]
      [] s = "main" -> ConfigFinal(m) /\ 6 \in m["NVIC_ISER0"]

\* C4: running a setup stage twice leaves the registers as running it once
\* does, and the bits of the stage's own fields end at the same value whatever
\* the registers held before.
C4_StageIdempotent ==
    /\ st_runs >= 1 => StageFieldsFinal(st_stage, st_pin, mem)
    /\ st_runs >= 2 => mem = st_once

\* The output stage has run twice on registers whose own fields were not yet
\* at their final value.
C4_Witness ==
    /\ st_stage = "gpioe"
    /\ st_runs = 2
    /\ ~StageFieldsFinal(st_stage, st_pin, st_prior)
    /\ 2 * st_pin + 1 \in st_prior["GPIOE_MODER"]

\* ------------------------------------------------------------------ C5 ----
\* C5: when bit 0 of the value read from GPIOA_IDR is 1 the handler writes
\* exactly bit 15 to GPIOE_BSRR and ODR then has bit 15 set; when it is 0 the
\* handler writes exactly bit 31 and ODR then has bit 15 clear; whatever the
\* other IDR bits and the prior output state.
C5_OutputEncodesInputBit0 ==
    AtReturn =>
        IF 0 \in h_idr
        THEN bsrr = <<{15}>> /\ 15 \in mem["GPIOE_ODR"]
        ELSE bsrr = <<{31}>> /\ 15 \notin mem["GPIOE_ODR"]

\* Input 0 read with another IDR bit set and the LED on before: LED now off.
C5_Witness ==
    /\ AtReturn
    /\ 0 \notin h_idr /\ 1 \in h_idr
    /\ 15 \in h_odr0
    /\ 15 \notin mem["GPIOE_ODR"]

\* ------------------------------------------------------------------ C6 ----
\* C6: the heartbeat counter starts at 0, is emitted and then increased by 1
\* on every iteration, continues from the minimum of its representation after
\* the maximum, and main never enters a halted state.
C6_HeartbeatWrapsWithoutHalt ==
    /\ main_pc # "halted"
    /\ stim = <<>> => i = 0
    /\ stim # <<>> => i = (IF stim[1] = CounterMax THEN CounterMin ELSE stim[1] + 1)

\* ------------------------------------------------------------------ C7 ----
\* C7: a register of GPIOE, GPIOA or SYSCFG is never accessed, by main or by
\* the handler, while the bus clock of its peripheral is off.
C7_ClockBeforeAccess ==
    /\ unclocked = {}
    /\ h_pc \in {"read_input", "set_led"} => {17, 21} \subseteq mem["RCC_AHBENR"]
    /\ (main_pc = "moder" => 21 \in mem["RCC_AHBENR"])
    /\ (main_pc = "exticr1" => 0 \in mem["RCC_AHB2ENR"])

\* Every gated register has been accessed, all with the clock on.
C7_Witness ==
    /\ {"GPIOE_MODER", "SYSCFG_EXTICR1"} \subseteq touched.main
    /\ {"GPIOA_IDR", "GPIOE_BSRR"} \subseteq touched.handler
    /\ unclocked = {}

\* ------------------------------------------------------------------ C8 ----
\* C8: main and the handler access disjoint sets of registers, the handler's
\* being EXTI_PR1, GPIOA_IDR and GPIOE_BSRR; so between the read and the write
\* of a modify in main the register still holds the value main read.
C8_DisjointRegisterSets ==
    /\ Addrs(touched.main) \cap Addrs(touched.handler) = {}
    /\ touched.handler \subseteq {"EXTI_PR1", "GPIOA_IDR", "GPIOE_BSRR"}
    /\ Addrs({"EXTI_PR1", "GPIOA_IDR", "GPIOE_BSRR"}) \cap Addrs(touched.main) = {}
    /\ (main_pc \in SetupPcs /\ main_rmw = "write") => mem[OpReg(main_pc)] = main_r

\* Both contexts have accessed all of their registers.
C8_Witness ==
    /\ touched.handler = {"EXTI_PR1", "GPIOA_IDR", "GPIOE_BSRR"}
    /\ "ITM_STIM0" \in touched.main
    /\ "NVIC_ISER0" \in touched.main

\* ------------------------------------------------------------------ C9 ----
Quiescent == h_pc = "idle" /\ ~Pending0
\* 1 while a latched edge waits for an invocation to take it.
Due == IF Pending0 /\ h_pc \notin {"pr_read", "pr_write"} THEN 1 ELSE 0

\* C9 (as stated): after setup, every edge causes exactly one invocation of
\* the handler (no edge was latched during setup).
C9_OneInvocationPerEdge ==
    (SetupDone /\ carried = 0 /\ Quiescent) => invocations = edges

\* C9 (amended): after setup, every edge that finds line 0 not pending causes
\* exactly one invocation; an edge that arrives while line 0 is still pending
\* is merged into the invocation already due.  With one more invocation for an
\* edge latched during setup, invocations = edges - merged edges.
C9_InvocationsCountUnmergedEdges ==
    /\ SetupDone => invocations + Due = edges - coalesced + carried
    /\ ~SetupDone => invocations = 0 /\ edges = 0

\* Two edges were served by one invocation.
C9_Witness ==
    SetupDone /\ Quiescent /\ carried = 0 /\ edges = 2 /\ coalesced = 1
        /\ invocations = 1

\* ----------------------------------------------------------------- C10 ----
\* 1: clock enable, 2: pin mode, 3: interrupt routing.
StageRank(reg) ==
    CASE reg \in {"RCC_AHBENR", "RCC_AHB2ENR"} -> 1
      [] reg = "GPIOE_MODER" -> 2
      [] OTHER -> 3

\* C10 (as stated): all clock enables complete first, then the pin mode is
\* configured, then the interrupt routing is programmed.
C10_ClocksThenModeThenRouting ==
    \A j, k \in 1..Len(setup_log) :
        j < k => StageRank(setup_log[j]) <= StageRank(setup_log[k])

SetupWrites ==
    <<"RCC_AHBENR", "GPIOE_MODER", "RCC_AHBENR", "RCC_AHB2ENR", "SYSCFG_EXTICR1",
      "EXTI_IMR1", "EXTI_RTSR1", "EXTI_FTSR1", "NVIC_ISER0">>

\* C10 (amended): main performs the setup writes once each in the order GPIOE
\* clock, output pin mode, GPIOA clock, SYSCFG clock, EXTICR1, IMR1, RTSR1,
\* FTSR1, NVIC_ISER0; only then does the heartbeat loop start, and no setup
\* write is repeated after it has started.
C10_SetupOrder ==
    /\ Len(setup_log) <= Len(SetupWrites)
    /\ setup_log = SubSeq(SetupWrites, 1, Len(setup_log))
    /\ SetupDone <=> setup_log = SetupWrites
    /\ stim # <<>> => SetupDone

\* The loop is running after the nine setup writes.
C10_Witness ==
    main_pc = "loop" /\ stim # <<>> /\ Len(setup_log) = 9 /\ i # 0

\* ----------------------------------------------------------------- C11 ----
HandlerAccesses ==
    <<<<"EXTI_PR1", "r">>, <<"EXTI_PR1", "w">>, <<"GPIOA_IDR", "r">>,
      <<"GPIOE_BSRR", "w">>>>

HandlerInOrder ==
    /\ Len(h_log) <= Len(HandlerAccesses)
    /\ h_log = SubSeq(HandlerAccesses, 1, Len(h_log))
    /\ (AtReturn \/ (h_pc = "idle" /\ invocations > 0)) =>
          /\ h_log = HandlerAccesses
          /\ bsrr \in {<<SetLedOnValue(OUTPUT_PIN)>>, <<SetLedOffValue(OUTPUT_PIN)>>}
    /\ (HandlerActive /\ ~AtReturn) => Len(h_log) < Len(HandlerAccesses)

\* C11: in every invocation the handler clears the line-0 pending bit, then
\* reads the input pin, then writes GPIOE_BSRR exactly once (set or reset),
\* then returns; and every invocation returns.
C11_HandlerStepsInOrder ==
    /\ []HandlerInOrder
    /\ HandlerActive ~> ~HandlerActive

\* A second invocation is about to return after its four accesses.
C11_Witness ==
    AtReturn /\ invocations = 2 /\ h_log = HandlerAccesses /\ bsrr = <<{31}>>

\* ----------------------------------------------------------------- C12 ----
\* C12: an invocation of the handler leaves the levels of GPIOE pins 0..14 as
\* they were before it ran, whatever the prior output state and input level.
C12_OtherPinsUnchanged ==
    AtReturn => mem["GPIOE_ODR"] \cap (0..14) = h_odr0 \cap (0..14)

\* Pin 14 was high and the LED off; the invocation turned the LED on.
C12_Witness ==
    /\ AtReturn
    /\ 14 \in h_odr0 /\ 15 \notin h_odr0
    /\ mem["GPIOE_ODR"] = {14, 15}

\* ----------------------------------------------------------------- C13 ----
\* The bits of a register that the setup (with pin index `pin`) configures.
SetupField(reg, pin) ==
    CASE reg = "RCC_AHBENR" -> {17, 21}
      [] reg = "RCC_AHB2ENR" -> {0}
      [] reg = "GPIOE_MODER" -> {2 * pin, 2 * pin + 1}
      [] reg = "SYSCFG_EXTICR1" -> {0, 1, 2}
      [] reg \in {"EXTI_IMR1", "EXTI_RTSR1", "EXTI_FTSR1"} -> {0}
      [] reg = "NVIC_ISER0" -> {6}
      [] OTHER -> {}

\* C13: after the setup (a stage of it, or all of it), whatever the registers
\* held before, every bit outside the configured fields (AHBENR 17 and 21,
\* the second clock-enable register bit 0, the MODER field of the pin,
\* EXTICR1 2:0, IMR1, RTSR1, FTSR1 bit 0, ISER0 bit 6) is as it was before.
C13_SetupPreservesOtherBits ==
    st_runs >= 1 =>
        \A reg \in RegNames :
            mem[reg] \ SetupField(reg, st_pin) = st_prior[reg] \ SetupField(reg, st_pin)

\* The whole setup has run on registers with bits set outside every field.
C13_Witness ==
    /\ st_stage = "main"
    /\ st_runs = 1
    /\ st_prior["GPIOE_MODER"] = {28, 29, 31}
    /\ mem["GPIOE_MODER"] = {28, 29, 30}
    /\ st_prior["SYSCFG_EXTICR1"] = {1, 3, 4}
    /\ mem["SYSCFG_EXTICR1"] = {3, 4}
    /\ mem["NVIC_ISER0"] = {6, 7}

\* ----------------------------------------------------------------- C14 ----
\* C14: for every pin index p in 0..15 and every prior value of GPIOE_MODER,
\* setup_gpioe_pin_as_output(p) leaves bits 2p+1:2p at 01 and every other
\* bit unchanged, and no shift moves a bit out of the 32-bit word (the field
\* of p = 15, the pin main passes, is bits 31:30).
C14_ModerFieldSetToOutput ==
    (st_stage = "gpioe" /\ st_runs >= 1) =>
        LET f == {2 * st_pin, 2 * st_pin + 1} IN
        /\ mem["GPIOE_MODER"] \cap f = {2 * st_pin}
        /\ mem["GPIOE_MODER"] \ f = st_prior["GPIOE_MODER"] \ f
        /\ Shl(Bits(3), st_pin * 2) = f
        /\ f \subseteq WordBits
        /\ OUTPUT_PIN \in 0..15

\* Pin 15: the field was 11 with both neighbouring bits set.
C14_Witness ==
    /\ st_stage = "gpioe"
    /\ st_pin = OUTPUT_PIN
    /\ st_runs = 1
    /\ st_prior["GPIOE_MODER"] = {0, 29, 30, 31}
    /\ mem["GPIOE_MODER"] = {0, 29, 30}

\* ----------------------------------------------------------------- C15 ----
\* C15: after setup, whenever an invocation has completed, the handler is not
\* running and line 0 is not pending, the driven level of the output pin
\* equals the current level of the input pin.
C15_QuiescentLedFollowsButton ==
    (SetupDone /\ invocations >= 1 /\ Quiescent) => LedLevel(mem) = PinLevel(mem)

\* Quiescent after an edge that arrived in the middle of an invocation.
C15_Witness ==
    /\ SetupDone /\ Quiescent
    /\ invocations = 2 /\ edges = 2 /\ coalesced = 0 /\ carried = 0
    /\ LedLevel(mem) = PinLevel(mem)

\* ----------------------------------------------------------------- C16 ----
\* C16: if after setup the button produces an edge and then stops changing,
\* the output pin eventually equals the input level and stays equal to it.
C16_LedConvergesToButton ==
    (/\ <>(SetupDone /\ edges >= 1)
     /\ <>[][mem'["GPIOA_IDR"] = mem["GPIOA_IDR"]]_vars)
        => <>[](LedLevel(mem) = PinLevel(mem))

\* The button has stopped after its last edge and the LED shows its level.
C16_Witness ==
    /\ SetupDone /\ Quiescent
    /\ edges = MaxEdges
    /\ invocations >= 1
    /\ LedLevel(mem) = PinLevel(mem)

\* ----------------------------------------------------------------- C17 ----
\* C17: the handler's acknowledge clears only the pending bit of line 0: the
\* pending bits of the other lines are after it as they were before it.
C17_AcknowledgeClearsOnlyLine0 ==
    (HandlerActive /\ Logged("EXTI_PR1", "w")) =>
        mem["EXTI_PR1"] \ {0} = h_pr0 \ {0}

====
